---- MODULE Spec2Model ----
(***************************************************************************)
(* A model of the assistant bot of task.py: the Field wrappers (Name,      *)
(* Phone, Birthday), Record, AddressBook, the persistence functions, the   *)
(* input_error decorator, the command handlers and the command loop.       *)
(*                                                                         *)
(* A Python str is modelled as a sequence of one-character strings, so     *)
(* that the regular expression of Phone, strptime and strftime are         *)
(* computed character by character.  A raised exception is a result        *)
(* record [exc |-> <class name>, val |-> ...]; exc = "None" is a normal    *)
(* return.                                                                 *)
(***************************************************************************)
EXTENDS Integers, Sequences, FiniteSets, TLC

VARIABLES
    pc,        \* position of main: "start", "loop", "done", "crashed"
    book,      \* the AddressBook: records in dict insertion order
    disk,      \* addressbook.pkl: <<>> when absent, else <<pickled book>>
    loads,     \* number of load_data calls so far
    saves,     \* number of save_data calls so far
    ncmds,     \* number of lines main has read so far
    line,      \* the words of the last line read by main
    exc,       \* the exception the last handler raised ("None" if none)
    out,       \* the last message printed
    today,     \* the date the last get_upcoming_birthdays read from the clock
    upcoming,  \* the result of the last get_upcoming_birthdays
    rec,       \* RecordSpec: the phones of one Record
    call,      \* RecordSpec: the last Record method called, with its arguments
    ret        \* RecordSpec: what that call returned or raised

vars == <<pc, book, disk, loads, saves, ncmds, line, exc, out, today, upcoming, rec, call, ret>>

cmdVars == <<pc, book, disk, loads, saves, ncmds, line, exc, out, today, upcoming>>

recVars == <<rec, call, ret>>

---------------------------------------------------------------------------
(* Bounds of the model *)

\* the lines a session reads before the user closes it
MaxCmds == 3

\* the longest phone list of the Record of RecordSpec
MaxRecPhones == 2

(* Program constants *)

\* the {10} of the pattern of Phone
PhoneLen == 10

check_period == 7

---------------------------------------------------------------------------
(* Results *)

Ok(v) == [exc |-> "None", val |-> v]

Raise(e) == [exc |-> e, val |-> <<>>]

---------------------------------------------------------------------------
(* Characters and str *)

AsciiDigits == <<"0", "1", "2", "3", "4", "5", "6", "7", "8", "9">>

\* ARABIC-INDIC DIGIT THREE, a decimal digit (category Nd) outside ASCII
ArabicThree == "U+0663"

IsAsciiDigit(c) == \E i \in 1..Len(AsciiDigits) : AsciiDigits[i] = c

\* \d of a str pattern: any Unicode decimal digit
IsDigit(c) == IsAsciiDigit(c) \/ c = ArabicThree

\* int() of one decimal digit
DigitVal(c) ==
    IF c = ArabicThree THEN 3
    ELSE (CHOOSE i \in 1..Len(AsciiDigits) : AsciiDigits[i] = c) - 1

DigitChar(n) == AsciiDigits[n + 1]

RECURSIVE ToInt(_)
ToInt(s) ==
    IF s = <<>> THEN 0
    ELSE 10 * ToInt(SubSeq(s, 1, Len(s) - 1)) + DigitVal(s[Len(s)])

Rep(c, n) == [i \in 1..n |-> c]

---------------------------------------------------------------------------
(* Field wrappers *)

\* re.match('^\d{10}$', phone): ten \d from the start, then $, which matches
\* at the end of the string and also just before a newline that ends it
MatchPhonePattern(phone) ==
    /\ Len(phone) >= PhoneLen
    /\ \A i \in 1..PhoneLen : IsDigit(phone[i])
    /\ \/ Len(phone) = PhoneLen
       \/ Len(phone) = PhoneLen + 1 /\ phone[PhoneLen + 1] = "\n"

Phone(phone) ==
    IF MatchPhonePattern(phone) THEN Ok(phone) ELSE Raise("ValueError")

Name(name) ==
    IF name = <<>> THEN Raise("ValueError") ELSE Ok(name)

---------------------------------------------------------------------------
(* datetime: a date is [year, month, day] *)

Date(y, m, d) == [year |-> y, month |-> m, day |-> d]

IsLeap(y) == y % 4 = 0 /\ (y % 100 # 0 \/ y % 400 = 0)

DaysInMonth(y, m) ==
    IF m = 2 THEN (IF IsLeap(y) THEN 29 ELSE 28)
    ELSE IF m \in {4, 6, 9, 11} THEN 30 ELSE 31

DaysBeforeYear(y) ==
    (y - 1) * 365 + (y - 1) \div 4 - (y - 1) \div 100 + (y - 1) \div 400

RECURSIVE DaysBeforeMonth(_, _)
DaysBeforeMonth(y, m) ==
    IF m = 1 THEN 0 ELSE DaysBeforeMonth(y, m - 1) + DaysInMonth(y, m - 1)

\* date.toordinal()
Ordinal(dt) == DaysBeforeYear(dt.year) + DaysBeforeMonth(dt.year, dt.month) + dt.day

\* date.weekday(): Monday is 0, Sunday is 6
Weekday(dt) == (Ordinal(dt) + 6) % 7

NextDay(dt) ==
    IF dt.day < DaysInMonth(dt.year, dt.month) THEN Date(dt.year, dt.month, dt.day + 1)
    ELSE IF dt.month < 12 THEN Date(dt.year, dt.month + 1, 1)
    ELSE Date(dt.year + 1, 1, 1)

\* date + timedelta(n), n >= 0
RECURSIVE AddDays(_, _)
AddDays(dt, n) == IF n = 0 THEN dt ELSE AddDays(NextDay(dt), n - 1)

\* datetime.replace(year=y): raises when the day does not exist in year y
ReplaceYear(dt, y) ==
    IF dt.day > DaysInMonth(y, dt.month) THEN Raise("ValueError")
    ELSE Ok(Date(y, dt.month, dt.day))

\* the fields of a string that two "." separate, <<>> when it has not two
DotFields(s) ==
    LET dots == {i \in 1..Len(s) : s[i] = "."}
    IN  IF Cardinality(dots) # 2 THEN <<>>
        ELSE LET i1 == CHOOSE i \in dots : \A j \in dots : i <= j
                 i2 == CHOOSE i \in dots : \A j \in dots : j <= i
             IN  <<SubSeq(s, 1, i1 - 1), SubSeq(s, i1 + 1, i2 - 1), SubSeq(s, i2 + 1, Len(s))>>

\* datetime.strptime(s, "%d.%m.%Y"): %d and %m are one or two ASCII digits
\* in range, %Y is four digits; then the date must exist
Strptime(s) ==
    LET f == DotFields(s)
    IN  IF f = <<>> THEN Raise("ValueError")
        ELSE LET dd == f[1]
                 mm == f[2]
                 yy == f[3]
             IN  IF /\ Len(dd) \in {1, 2} /\ \A i \in 1..Len(dd) : IsAsciiDigit(dd[i])
                    /\ Len(mm) \in {1, 2} /\ \A i \in 1..Len(mm) : IsAsciiDigit(mm[i])
                    /\ Len(yy) = 4 /\ \A i \in 1..4 : IsDigit(yy[i])
                    /\ ToInt(dd) \in 1..31
                    /\ ToInt(mm) \in 1..12
                    /\ ToInt(yy) >= 1
                    /\ ToInt(dd) <= DaysInMonth(ToInt(yy), ToInt(mm))
                 THEN Ok(Date(ToInt(yy), ToInt(mm), ToInt(dd)))
                 ELSE Raise("ValueError")

\* date.strftime("%d.%m.%Y"), for a year of four digits
Strftime(dt) ==
    <<DigitChar(dt.day \div 10), DigitChar(dt.day % 10), ".",
      DigitChar(dt.month \div 10), DigitChar(dt.month % 10), ".",
      DigitChar(dt.year \div 1000), DigitChar((dt.year \div 100) % 10),
      DigitChar((dt.year \div 10) % 10), DigitChar(dt.year % 10)>>

Birthday(birthday) == Strptime(birthday)

---------------------------------------------------------------------------
(* Record: [name, phones, birthday]; birthday is <<>> for None, else <<date>> *)

Record(name) == [name |-> name, phones |-> <<>>, birthday |-> <<>>]

\* the first index whose phone has this value, 0 when the loop finds none
FirstIndex(phones, phone) ==
    IF \E i \in 1..Len(phones) : phones[i] = phone
    THEN CHOOSE i \in 1..Len(phones) :
            phones[i] = phone /\ \A j \in 1..(i - 1) : phones[j] # phone
    ELSE 0

\* each of the four returns [exc, val, phones]: phones is the list afterwards
add_phone(phones, phone) ==
    IF FirstIndex(phones, phone) # 0
    THEN [exc |-> "None", val |-> <<>>, phones |-> phones]
    ELSE IF Phone(phone).exc # "None"
         THEN [exc |-> Phone(phone).exc, val |-> <<>>, phones |-> phones]
         ELSE [exc |-> "None", val |-> <<>>, phones |-> Append(phones, Phone(phone).val)]

remove_phone(phones, phone) ==
    LET i == FirstIndex(phones, phone)
    IN  IF i # 0
        THEN [exc |-> "None", val |-> <<>>,
              phones |-> SubSeq(phones, 1, i - 1) \o SubSeq(phones, i + 1, Len(phones))]
        ELSE [exc |-> "ValueError", val |-> <<>>, phones |-> phones]

edit_phone(phones, old_phone, new_phone) ==
    LET i == FirstIndex(phones, old_phone)
    IN  IF i # 0
        THEN [exc |-> "None", val |-> <<>>, phones |-> [phones EXCEPT ![i] = new_phone]]
        ELSE [exc |-> "ValueError", val |-> <<>>, phones |-> phones]

find_phone(phones, phone) ==
    LET i == FirstIndex(phones, phone)
    IN  IF i # 0
        THEN [exc |-> "None", val |-> phones[i], phones |-> phones]
        ELSE [exc |-> "ValueError", val |-> <<>>, phones |-> phones]

---------------------------------------------------------------------------
(* AddressBook: a sequence of Records with distinct names, in insertion order *)

IndexOf(bk, name) ==
    IF \E i \in 1..Len(bk) : bk[i].name = name
    THEN CHOOSE i \in 1..Len(bk) : bk[i].name = name
    ELSE 0

\* AddressBook.find: <<>> for None, else <<record>>
find(bk, name) ==
    IF IndexOf(bk, name) = 0 THEN <<>> ELSE <<bk[IndexOf(bk, name)]>>

add_record(bk, record) ==
    IF IndexOf(bk, record.name) = 0 THEN Append(bk, record)
    ELSE [bk EXCEPT ![IndexOf(bk, record.name)] = record]

\* CongratulationDate with Saturday moved by one day, like Sunday
CongratulationDate_SaturdayByOne(birthday) ==
    IF Weekday(birthday) < 5 THEN birthday ELSE AddDays(birthday, 1)

\* the congratulation date of a birthday inside the window
CongratulationDate(birthday) ==
    IF Weekday(birthday) < 5 THEN birthday
    ELSE IF Weekday(birthday) = 5 THEN AddDays(birthday, 2)
    ELSE AddDays(birthday, 1)

\* the loop of get_upcoming_birthdays from record i on, bdays collected so far
RECURSIVE UpcomingFrom(_, _, _, _)
UpcomingFrom(bk, i, tod, bdays) ==
    IF i > Len(bk) THEN Ok(bdays)
    ELSE IF bk[i].birthday = <<>> THEN UpcomingFrom(bk, i + 1, tod, bdays)
    ELSE LET value == bk[i].birthday[1]
             thisYear == ReplaceYear(value, tod.year)
         IN  IF thisYear.exc # "None" THEN Raise(thisYear.exc)
             ELSE LET passed == Ordinal(thisYear.val) < Ordinal(tod)
                      nextYear == ReplaceYear(value, tod.year + 1)
                  IN  IF passed /\ nextYear.exc # "None" THEN Raise(nextYear.exc)
                      ELSE LET birthday == IF passed THEN nextYear.val ELSE thisYear.val
                           IN  IF Ordinal(birthday) - Ordinal(tod) > check_period
                               THEN UpcomingFrom(bk, i + 1, tod, bdays)
                               ELSE UpcomingFrom(bk, i + 1, tod,
                                        Append(bdays, [name |-> bk[i].name,
                                                       date |-> Strftime(CongratulationDate(birthday))]))

\* the result maps names to dates: a list of [name, date] in insertion order
get_upcoming_birthdays(bk, tod) == UpcomingFrom(bk, 1, tod, <<>>)

\* pickle.dump then pickle.load gives back an equal object graph
save_data(bk) == <<bk>>

load_data(file) == IF file = <<>> THEN <<>> ELSE file[1]

\* the message input_error returns for an exception; others propagate
input_error(e) ==
    IF e = "KeyError" THEN "The contact exists"
    ELSE IF e = "ValueError" THEN "Please enter the correct arguments"
    ELSE IF e = "IndexError" THEN "No such contacts"
    ELSE "Traceback"

Caught(e) == e \in {"KeyError", "ValueError", "IndexError"}

---------------------------------------------------------------------------
(* The inputs the model draws from *)

Ann == <<"A", "n", "n">>

Bob == <<"B", "o", "b">>

Names == {Ann, Bob}

\* ten digits
Phone1 == Rep("1", PhoneLen)

Phone2 == Rep("2", PhoneLen)

\* nine digits
ShortPhone == Rep("1", PhoneLen - 1)

\* nine digits and a letter
LetterPhone == Rep("1", PhoneLen - 1) \o <<"a">>

\* ten digits and a newline
NewlinePhone == Rep("1", PhoneLen) \o <<"\n">>

\* ten decimal digits that are not ASCII
ArabicPhone == Rep(ArabicThree, PhoneLen)

\* a word of a command line holds no whitespace
PhoneWords == {Phone1, Phone2, LetterPhone}

\* an argument of a Record method is any str
PhoneStrings == {Phone1, Phone2, ShortPhone, NewlinePhone, ArabicPhone}

\* "12.01.1990": a Friday in 2024
DateFri == <<"1", "2", ".", "0", "1", ".", "1", "9", "9", "0">>

\* "13.01.1985": a Saturday in 2024
DateSat == <<"1", "3", ".", "0", "1", ".", "1", "9", "8", "5">>

\* "4.1.2001": a Saturday in 2025
DateJan4 == <<"4", ".", "1", ".", "2", "0", "0", "1">>

\* "29.02.2000": a leap day
DateLeap == <<"2", "9", ".", "0", "2", ".", "2", "0", "0", "0">>

\* "31.02.2024": no such day
DateNoDay == <<"3", "1", ".", "0", "2", ".", "2", "0", "2", "4">>

\* "12-01-1990": not the format
DateDashes == <<"1", "2", "-", "0", "1", "-", "1", "9", "9", "0">>

DateWords == {DateFri, DateSat, DateJan4, DateLeap, DateNoDay, DateDashes}

\* what datetime.today().date() may return: Wednesday 10.01.2024,
\* Monday 30.12.2024 (of a leap year), Friday 10.01.2025
Todays == {Date(2024, 1, 10), Date(2024, 12, 30), Date(2025, 1, 10)}

\* what the user may answer to "Choose the number of phone to edit"
KeyWords == {<<"0">>, <<"1">>, <<"-", "1">>, <<"7">>, <<"x">>}

\* no answer: the prompt was not shown
NoKey == <<>>

\* str.lower() of the command words the model types
Lower(w) ==
    IF w = "Hello" THEN "hello" ELSE w

\* parse_input before its decorator: unpacking no words raises ValueError
parse_input(words) ==
    IF Len(words) = 0 THEN Raise("ValueError")
    ELSE Ok(<<Lower(words[1])>> \o Tail(words))

\* main's  command, *args = parse_input(user_input):  when parse_input
\* raised, the decorator returned its message and command is the first
\* character of "Please enter the correct arguments"
Command(words) ==
    IF parse_input(words).exc = "None" THEN parse_input(words).val[1] ELSE "P"

Args(words) ==
    IF parse_input(words).exc = "None" THEN Tail(parse_input(words).val) ELSE <<>>

\* the lines the user may type, as their words
Lines ==
    {<<>>, <<"hello">>, <<"Hello">>, <<"all">>, <<"birthdays">>, <<"close">>, <<"exit">>,
     <<"remove">>, <<"add">>, <<"change">>, <<"phone">>, <<"add-birthday">>,
     <<"show-birthday">>}
    \cup {<<c, n>> : c \in {"add", "change", "phone", "add-birthday", "show-birthday"},
                     n \in Names}
    \cup {<<c, n, p>> : c \in {"add", "change"}, n \in Names, p \in PhoneWords}
    \cup {<<"add-birthday", n, d>> : n \in Names, d \in DateWords}
    \cup {<<"add", Ann, Phone2, Phone1>>, <<"change", Ann, Phone2, Phone1>>,
          <<"add-birthday", Ann, DateFri, DateSat>>}

\* the lines whose command is c
LinesOf(c) == {l \in Lines : Command(l) = c}

Commands ==
    {"close", "exit", "hello", "add", "change", "phone", "all", "add-birthday",
     "show-birthday", "birthdays"}

OtherLines == {l \in Lines : Command(l) \notin Commands}

CloseLines == LinesOf("close") \cup LinesOf("exit")

HelloLines == LinesOf("hello")

AddLines == LinesOf("add")

ChangeLines == LinesOf("change")

PhoneLines == LinesOf("phone")

AllLines == LinesOf("all")

AddBirthdayLines == LinesOf("add-birthday")

ShowBirthdayLines == LinesOf("show-birthday")

BirthdaysLines == LinesOf("birthdays")

---------------------------------------------------------------------------
(* The command loop *)

\* int(s): an optional sign, then decimal digits
ParseInt(s) ==
    LET neg == Len(s) >= 1 /\ s[1] = "-"
        digits == IF neg THEN Tail(s) ELSE s
    IN  IF Len(digits) >= 1 /\ \A i \in 1..Len(digits) : IsDigit(digits[i])
        THEN Ok(IF neg THEN 0 - ToInt(digits) ELSE ToInt(digits))
        ELSE Raise("ValueError")

\* list[key]: counts from 0, a negative key counts from the end
Subscript(list, key) ==
    IF key >= 0 /\ key < Len(list) THEN Ok(list[key + 1])
    ELSE IF key < 0 /\ Len(list) + key >= 0 THEN Ok(list[Len(list) + key + 1])
    ELSE Raise("IndexError")

Message(text, data) == [text |-> text, data |-> data]

\* what a handler's call does to the loop: a caught exception becomes the
\* decorator's message, any other ends the process with a traceback
Finish(e, text, data, bk) ==
    /\ ncmds < MaxCmds
    /\ ncmds' = ncmds + 1
    /\ exc' = e
    /\ book' = bk
    /\ IF e = "None" THEN out' = Message(text, data) /\ pc' = "loop"
       ELSE IF Caught(e) THEN out' = Message(input_error(e), <<>>) /\ pc' = "loop"
       ELSE out' = Message("Traceback", <<>>) /\ pc' = "crashed"
    /\ UNCHANGED <<disk, loads, saves, rec, call, ret>>

SetPhones(bk, name, phones) ==
    [bk EXCEPT ![IndexOf(bk, name)].phones = phones]

SetBirthday(bk, name, value) ==
    [bk EXCEPT ![IndexOf(bk, name)].birthday = <<value>>]

\* add_contact before its decorator: [exc, text, book]; the Record is made
\* and put in the book before add_phone runs
add_contact(args, bk) ==
    IF Len(args) < 2 THEN [exc |-> "ValueError", text |-> "", book |-> bk]
    ELSE LET name == args[1]
             phone == args[2]
             absent == find(bk, name) = <<>>
             bk1 == IF absent THEN add_record(bk, Record(name)) ELSE bk
             message == IF absent THEN "Contact added." ELSE "Contact updated."
             added == add_phone(find(bk1, name)[1].phones, phone)
         IN  IF Len(phone) = 0 THEN [exc |-> "None", text |-> message, book |-> bk1]
             ELSE [exc |-> added.exc, text |-> message,
                   book |-> SetPhones(bk1, name, added.phones)]

add_birthday(args, bk) ==
    IF Len(args) # 2 THEN [exc |-> "ValueError", text |-> "", book |-> bk]
    ELSE IF find(bk, args[1]) = <<>> THEN [exc |-> "IndexError", text |-> "", book |-> bk]
    ELSE IF Birthday(args[2]).exc # "None"
    THEN [exc |-> Birthday(args[2]).exc, text |-> "", book |-> bk]
    ELSE [exc |-> "None", text |-> "Date of birth added.",
          book |-> SetBirthday(bk, args[1], Birthday(args[2]).val)]

\* the book an earlier session left in the file:
\* add Ann 1111111111, add-birthday Ann 12.01.1990, close
OldBook ==
    add_birthday(<<Ann, DateFri>>, add_contact(<<Ann, Phone1>>, <<>>).book).book

Init ==
    /\ pc = "start"
    /\ book = <<>>
    /\ disk \in {<<>>, save_data(OldBook)}
    /\ loads = 0
    /\ ncmds = 0
    /\ saves = 0
    /\ line = <<>>
    /\ exc = "None"
    /\ out = Message("", <<>>)
    /\ today = <<>>
    /\ upcoming = <<>>
    /\ rec = <<>>
    /\ call = [op |-> "__init__", a |-> <<>>, b |-> <<>>]
    /\ ret = [exc |-> "None", val |-> <<>>]

\* book = load_data(); print("Welcome to the assistant bot!")
Start ==
    /\ pc = "start"
    /\ book' = load_data(disk)
    /\ loads' = loads + 1
    /\ out' = Message("Welcome to the assistant bot!", <<>>)
    /\ pc' = "loop"
    /\ UNCHANGED <<disk, saves, ncmds, line, exc, today, upcoming, rec, call, ret>>

Close ==
    /\ pc = "loop"
    /\ \E l \in CloseLines : line' = l
    /\ ncmds' = ncmds + 1
    /\ out' = Message("Good bye!", <<>>)
    /\ disk' = save_data(book)
    /\ saves' = saves + 1
    /\ exc' = "None"
    /\ pc' = "done"
    /\ UNCHANGED <<book, loads, today, upcoming, rec, call, ret>>

Hello ==
    /\ pc = "loop"
    /\ \E l \in HelloLines : line' = l
    /\ Finish("None", "How can I help you?", <<>>, book)
    /\ UNCHANGED <<today, upcoming>>

InvalidCommand ==
    /\ pc = "loop"
    /\ \E l \in OtherLines : line' = l
    /\ Finish("None", "Invalid command", <<>>, book)
    /\ UNCHANGED <<today, upcoming>>

AddContact ==
    /\ pc = "loop"
    /\ \E l \in AddLines :
        /\ line' = l
        /\ LET r == add_contact(Args(l), book)
           IN  Finish(r.exc, r.text, <<>>, r.book)
    /\ UNCHANGED <<today, upcoming>>

\* change_contact before its decorator, key being the answer to its prompt
change_contact(args, bk, key) ==
    IF Len(args) # 2 THEN [exc |-> "ValueError", text |-> "", book |-> bk]
    ELSE LET name == args[1]
             new_phone == args[2]
             record == find(bk, name)
         IN  IF record = <<>> THEN [exc |-> "KeyError", text |-> "", book |-> bk]
             ELSE LET phones == record[1].phones
                      chosen ==
                          IF Len(phones) = 1 THEN Ok(phones[1])
                          ELSE IF ParseInt(key).exc # "None" THEN Raise(ParseInt(key).exc)
                          ELSE Subscript(phones, ParseInt(key).val)
                  IN  IF Len(phones) = 0
                      THEN [exc |-> "None", text |-> "No phones to edit", book |-> bk]
                      ELSE IF chosen.exc # "None"
                      THEN [exc |-> chosen.exc, text |-> "", book |-> bk]
                      ELSE LET edited == edit_phone(phones, chosen.val, new_phone)
                           IN  [exc |-> edited.exc,
                                text |-> "Contact updated successfully.",
                                book |-> SetPhones(bk, name, edited.phones)]

\* whether change_contact reaches its input(): the contact has several phones
Prompts(args, bk) ==
    /\ Len(args) = 2
    /\ find(bk, args[1]) # <<>>
    /\ Len(find(bk, args[1])[1].phones) > 1

ChangeContact ==
    /\ pc = "loop"
    /\ \E l \in ChangeLines :
       \E key \in (IF Prompts(Args(l), book) THEN KeyWords ELSE {NoKey}) :
        /\ line' = l
        /\ LET r == change_contact(Args(l), book, key)
           IN  Finish(r.exc, r.text, <<>>, r.book)
    /\ UNCHANGED <<today, upcoming>>

show_contact(args, bk) ==
    IF Len(args) = 0 THEN Raise("IndexError")
    ELSE IF find(bk, args[1]) = <<>> THEN Raise("IndexError")
    ELSE Ok(find(bk, args[1])[1].phones)

ShowContact ==
    /\ pc = "loop"
    /\ \E l \in PhoneLines :
        /\ line' = l
        /\ LET r == show_contact(Args(l), book)
           IN  Finish(r.exc, "The contact hase following phones:", r.val, book)
    /\ UNCHANGED <<today, upcoming>>

show_all(bk) ==
    IF Len(bk) = 0 THEN Raise("IndexError")
    ELSE Ok([i \in 1..Len(bk) |-> <<bk[i].name>> \o bk[i].phones])

ShowAll ==
    /\ pc = "loop"
    /\ \E l \in AllLines : line' = l
    /\ Finish(show_all(book).exc, "", show_all(book).val, book)
    /\ UNCHANGED <<today, upcoming>>

AddBirthday ==
    /\ pc = "loop"
    /\ \E l \in AddBirthdayLines :
        /\ line' = l
        /\ LET r == add_birthday(Args(l), book)
           IN  Finish(r.exc, r.text, <<>>, r.book)
    /\ UNCHANGED <<today, upcoming>>

\* record.birthday on None, and .value on a birthday of None, raise
\* AttributeError
show_birthday(args, bk) ==
    IF Len(args) = 0 THEN Raise("IndexError")
    ELSE IF find(bk, args[1]) = <<>> THEN Raise("AttributeError")
    ELSE IF find(bk, args[1])[1].birthday = <<>> THEN Raise("AttributeError")
    ELSE Ok(Strftime(find(bk, args[1])[1].birthday[1]))

ShowBirthday ==
    /\ pc = "loop"
    /\ \E l \in ShowBirthdayLines :
        /\ line' = l
        /\ LET r == show_birthday(Args(l), book)
           IN  Finish(r.exc, "", r.val, book)
    /\ UNCHANGED <<today, upcoming>>

Birthdays ==
    /\ pc = "loop"
    /\ \E l \in BirthdaysLines, tod \in Todays :
        /\ line' = l
        /\ today' = tod
        /\ LET r == get_upcoming_birthdays(book, tod)
           IN  /\ upcoming' = r
               /\ Finish(r.exc, IF r.val = <<>> THEN "No birthdays" ELSE "", r.val, book)

Next ==
    \/ Start
    \/ Close
    \/ Hello
    \/ AddContact
    \/ ChangeContact
    \/ ShowContact
    \/ ShowAll
    \/ AddBirthday
    \/ ShowBirthday
    \/ Birthdays
    \/ InvalidCommand

Spec == Init /\ [][Next]_vars

---------------------------------------------------------------------------
(* The methods of one Record, called directly *)

AddPhone ==
    \E phone \in PhoneStrings :
        LET r == add_phone(rec, phone)
        IN  /\ Len(r.phones) <= MaxRecPhones
            /\ rec' = r.phones
            /\ call' = [op |-> "add_phone", a |-> phone, b |-> <<>>]
            /\ ret' = [exc |-> r.exc, val |-> r.val]
            /\ UNCHANGED cmdVars

RemovePhone ==
    \E phone \in PhoneStrings :
        LET r == remove_phone(rec, phone)
        IN  /\ rec' = r.phones
            /\ call' = [op |-> "remove_phone", a |-> phone, b |-> <<>>]
            /\ ret' = [exc |-> r.exc, val |-> r.val]
            /\ UNCHANGED cmdVars

EditPhone ==
    \E old_phone \in PhoneStrings, new_phone \in PhoneStrings :
        LET r == edit_phone(rec, old_phone, new_phone)
        IN  /\ rec' = r.phones
            /\ call' = [op |-> "edit_phone", a |-> old_phone, b |-> new_phone]
            /\ ret' = [exc |-> r.exc, val |-> r.val]
            /\ UNCHANGED cmdVars

FindPhone ==
    \E phone \in PhoneStrings :
        LET r == find_phone(rec, phone)
        IN  /\ rec' = r.phones
            /\ call' = [op |-> "find_phone", a |-> phone, b |-> <<>>]
            /\ ret' = [exc |-> r.exc, val |-> r.val]
            /\ UNCHANGED cmdVars

RecordNext ==
    \/ AddPhone
    \/ RemovePhone
    \/ EditPhone
    \/ FindPhone

\* a Record made by Record(name), no session running
RecordInit == Init /\ disk = <<>>

RecordSpec == RecordInit /\ [][RecordNext]_vars

---------------------------------------------------------------------------
(* What the claims speak of *)

\* a string of exactly ten digits, a digit being any decimal digit
TenDigits(p) == Len(p) = PhoneLen /\ \A i \in 1..Len(p) : IsDigit(p[i])

NamesIn(bk) == {bk[i].name : i \in 1..Len(bk)}

\* the last line read was this command, and its handler has returned
Handled(c) == pc = "loop" /\ ncmds > 0 /\ Command(line) = c

\* the next day with the birthday's month and day, on or after tod: this
\* year's, or next year's when this year's is before tod
NextOccurrence(value, tod) ==
    IF Ordinal(Date(tod.year, value.month, value.day)) >= Ordinal(tod)
    THEN Date(tod.year, value.month, value.day)
    ELSE Date(tod.year + 1, value.month, value.day)

DaysAhead(value, tod) == Ordinal(NextOccurrence(value, tod)) - Ordinal(tod)

\* how often get_upcoming_birthdays reported this name
TimesReported(name) ==
    Cardinality({k \in 1..Len(upcoming.val) : upcoming.val[k].name = name})

\* C1: every phone value stored in every Record of the AddressBook is a
\* string of exactly 10 digits, whatever add, change and add-birthday
\* commands came before.
C1_StoredPhonesAreTenDigits ==
    \A i \in 1..Len(book) : \A j \in 1..Len(book[i].phones) :
        TenDigits(book[i].phones[j])

\* C2: after any sequence of add_phone, remove_phone and edit_phone calls
\* the phones of a Record hold no two entries with the same value.
C2_NoDuplicatePhones ==
    \A i \in 1..Len(rec) : \A j \in 1..Len(rec) : i # j => rec[i] # rec[j]

\* C3: after edit_phone(old, new) has succeeded, find_phone(new) returns new
\* and find_phone(old) fails with ValueError.  The case old = new, in which
\* the two halves contradict each other, is left aside.
C3_EditThenFind ==
    (call.op = "edit_phone" /\ ret.exc = "None" /\ call.a # call.b) =>
        /\ find_phone(rec, call.b).exc = "None"
        /\ find_phone(rec, call.b).val = call.b
        /\ find_phone(rec, call.a).exc = "ValueError"

\* C4: add_phone(p) of a p that is not exactly 10 digits raises ValueError
\* and leaves the phones unchanged; of a valid p already present it leaves
\* the phones unchanged; of any other valid p it appends p at the end.
C4_AddPhoneContract ==
    [][call'.op = "add_phone" =>
          IF ~TenDigits(call'.a) THEN ret'.exc = "ValueError" /\ rec' = rec
          ELSE /\ ret'.exc = "None"
               /\ rec' = IF \E i \in 1..Len(rec) : rec[i] = call'.a
                         THEN rec ELSE Append(rec, call'.a)]_vars

\* C5: no command failure is fatal: the loop stops only on close or exit,
\* every other line ends with a message and the loop reading on.
C5_NoFatalFailure ==
    pc \notin {"start", "loop"} => pc = "done" /\ Command(line) \in {"close", "exit"}

\* C6: get_upcoming_birthdays returns a mapping that holds a contact if and
\* only if the contact has a birthday whose next occurrence on or after
\* today is at most 7 days after today, and holds it exactly once.
C6_UpcomingIffWithinWindow ==
    Handled("birthdays") =>
        /\ upcoming.exc = "None"
        /\ \A k \in 1..Len(upcoming.val) : upcoming.val[k].name \in NamesIn(book)
        /\ \A i \in 1..Len(book) :
              IF /\ book[i].birthday # <<>>
                 /\ DaysAhead(book[i].birthday[1], today) <= check_period
              THEN TimesReported(book[i].name) = 1
              ELSE TimesReported(book[i].name) = 0

\* C7: for every contact get_upcoming_birthdays reports, the congratulation
\* date is the candidate birthday itself on Monday to Friday, the candidate
\* plus 2 days on a Saturday, plus 1 day on a Sunday; no reported date falls
\* on a Saturday or Sunday.
C7_WeekendShift ==
    (Handled("birthdays") /\ upcoming.exc = "None") =>
        \A k \in 1..Len(upcoming.val) :
            LET value == find(book, upcoming.val[k].name)[1].birthday[1]
                candidate == NextOccurrence(value, today)
                reported == Strptime(upcoming.val[k].date)
                shift == Ordinal(reported.val) - Ordinal(candidate)
            IN  /\ reported.exc = "None"
                /\ Weekday(candidate) < 5 => shift = 0
                /\ Weekday(candidate) = 5 => shift = 2
                /\ Weekday(candidate) = 6 => shift = 1
                /\ Weekday(reported.val) < 5

\* a result that reports a Friday birthday unchanged and a Saturday one moved
C7_Witness ==
    /\ Handled("birthdays")
    /\ upcoming.exc = "None"
    /\ \E k \in 1..Len(upcoming.val) :
          LET value == find(book, upcoming.val[k].name)[1].birthday[1]
          IN  /\ Weekday(NextOccurrence(value, today)) = 5
              /\ Weekday(Strptime(upcoming.val[k].date).val) = 0
    /\ \E k \in 1..Len(upcoming.val) :
          LET value == find(book, upcoming.val[k].name)[1].birthday[1]
          IN  /\ Weekday(NextOccurrence(value, today)) = 4
              /\ Strptime(upcoming.val[k].date).val = NextOccurrence(value, today)

\* C8: in every run the book is loaded once, at startup, and saved exactly
\* once, at close or exit and after all other commands; no load or save
\* happens while another command is processed.
C8_LoadOnceSaveOnce ==
    /\ pc = "start" => loads = 0 /\ saves = 0
    /\ pc = "loop" => loads = 1 /\ saves = 0
    /\ pc \notin {"start", "loop"} =>
          loads = 1 /\ saves = 1 /\ Command(line) \in {"close", "exit"}

\* the kinds of failure of the last line: too few arguments; else a contact
\* that is not in the book; else a malformed phone or date
TooFewArguments ==
    \/ Command(line) \in {"add", "change", "add-birthday"} /\ Len(Args(line)) < 2
    \/ Command(line) \in {"phone", "show-birthday"} /\ Len(Args(line)) < 1

AbsentContact ==
    /\ ~TooFewArguments
    /\ Command(line) \in {"change", "phone", "add-birthday", "show-birthday"}
    /\ Args(line)[1] \notin NamesIn(book)

MalformedValue ==
    /\ ~TooFewArguments
    /\ ~AbsentContact
    /\ \/ Command(line) \in {"add", "change"} /\ ~TenDigits(Args(line)[2])
       \/ Command(line) = "add-birthday" /\ Strptime(Args(line)[2]).exc # "None"

\* C9: each kind of failure has one fixed message in every command: a
\* contact absent from the book gives "The contact exists", a malformed
\* phone or date "Please enter the correct arguments", a wrong argument
\* count "No such contacts".
C9_OneMessagePerKind ==
    (pc \in {"loop", "crashed"} /\ ncmds > 0) =>
        /\ AbsentContact => out.text = "The contact exists"
        /\ MalformedValue => out.text = "Please enter the correct arguments"
        /\ TooFewArguments => out.text = "No such contacts"

\* C10: when add <name> <phone> reports "Please enter the correct
\* arguments" because the phone is not 10 digits, the book is as it was
\* before the command: no contact is created.
C10_FailedAddChangesNothing ==
    [][(/\ Command(line') = "add"
        /\ ncmds' = ncmds + 1
        /\ Len(Args(line')) >= 2
        /\ ~TenDigits(Args(line')[2])
        /\ out'.text = "Please enter the correct arguments") => book' = book]_vars

====
